---- MODULE Spec2Model ----
(***************************************************************************)
(* Model of the tree row collection of tui.grid:                           *)
(*   src/src/js/model/data/treeRowList.js  (TreeRowList)                   *)
(*   src/src/js/model/data/treeRow.js      (TreeRow)                       *)
(* The flat sequence of row models, the synthetic root row, the row key    *)
(* counter, the notifications of the last operation and its outcome are    *)
(* the state; every public operation of TreeRowList is one action.         *)
(***************************************************************************)
EXTENDS Integers, Sequences, FiniteSets, TLC

VARIABLES
    models,      \* the collection: the flat sequence of TreeRow models
    _rootRow,    \* this._rootRow, the synthetic root
    lastRowKey,  \* the row key counter of the base row list
    events,      \* notifications emitted by the last operation, in order
    err,         \* outcome of the last operation: "none" or "TypeError"
    lastOp       \* the last operation called and its arguments

vars == <<models, _rootRow, lastRowKey, events, err, lastOp>>

----------------------------------------------------------------------------
(* Bounds of the model *)

\* most rows the collection holds
MaxRows == 4
\* largest row key the counter hands out between two bulk loads
MaxKey == 3

----------------------------------------------------------------------------
(* Values *)

\* the rowKey of the synthetic root (undefined) and a null parentRowKey
NoKey == -1

\* an offset option that was not given (undefined)
NoOffset == -9

\* _treeData.childrenRowKeys that was never assigned (undefined)
Undefined == [defined |-> FALSE, keys |-> <<>>]

\* an array of row keys
Arr(keys) == [defined |-> TRUE, keys |-> keys]

\* createEmptyTreeRowData(): a root with no rowKey, no childrenRowKeys yet
createEmptyTreeRowData ==
    [rowKey |-> NoKey,
     _treeData |-> [hasNextSibling |-> <<>>, childrenRowKeys |-> Undefined]]

\* nested input rows: a name and an optional _children array
NoChildren == [defined |-> FALSE, rows |-> <<>>]
Leaf(n) == [name |-> n, _children |-> NoChildren]
Node(n, ch) == [name |-> n, _children |-> [defined |-> TRUE, rows |-> ch]]

\* the nested inputs of a bulk load
LoadInputs ==
    { <<>>,
      <<Leaf("a")>>,
      <<Leaf("a"), Leaf("b")>>,
      <<Node("a", <<>>)>>,
      <<Node("a", <<Leaf("b")>>)>>,
      <<Node("a", <<Leaf("b"), Leaf("c")>>)>>,
      <<Node("a", <<Leaf("b")>>), Leaf("c")>>,
      <<Node("a", <<Node("b", <<Leaf("c")>>)>>)>>,
      <<Node("a", <<Leaf("b"), Node("c", <<Leaf("e")>>)>>)>>,
      <<Node("a", <<Node("b", <<Leaf("c")>>), Leaf("e")>>)>>,
      <<Node("a", <<Node("b", <<Leaf("c")>>), Leaf("e")>>), Leaf("f")>> }

\* the row data of an append or prepend
AppendInputs ==
    { <<Leaf("x")>>,
      <<Node("x", <<>>), Leaf("y")>>,
      <<Node("x", <<Leaf("y")>>)>> }

RECURSIVE CountRows(_)
\* number of rows of a nested input
CountRows(treeRows) ==
    IF treeRows = <<>> THEN 0
    ELSE 1 + (IF Head(treeRows)._children.defined
              THEN CountRows(Head(treeRows)._children.rows) ELSE 0)
           + CountRows(Tail(treeRows))

----------------------------------------------------------------------------
(* The collection (base row list): keyed lookup and position *)

\* the collection object the methods run on
this == [models |-> models, _rootRow |-> _rootRow, lastRowKey |-> lastRowKey]

\* whether this.get(rowKey) is a row (not undefined)
has(t, rowKey) == \E i \in 1..Len(t.models) : t.models[i].rowKey = rowKey

\* position (1-based) of the row of a key in the flat sequence
pos(t, rowKey) == CHOOSE i \in 1..Len(t.models) : t.models[i].rowKey = rowKey

\* this.get(rowKey), for a key the collection holds
get(t, rowKey) == t.models[pos(t, rowKey)]

\* this.indexOf(this.get(rowKey)): 0-based, -1 when the row is undefined
indexOf(t, rowKey) == IF has(t, rowKey) THEN pos(t, rowKey) - 1 ELSE -1

\* RowList._createRowKey: the next key of the counter
_createRowKey(t) == t.lastRowKey + 1

----------------------------------------------------------------------------
(* TreeRow accessors (treeRow.js) *)

getTreeChildrenRowKeys(row) ==
    IF row._treeData.childrenRowKeys.defined
    THEN row._treeData.childrenRowKeys.keys ELSE <<>>

hasTreeNextSibling(row) == row._treeData.hasNextSibling

getTreeDepth(row) == Len(hasTreeNextSibling(row))

hasTreeChildren(row) == Len(getTreeChildrenRowKeys(row)) > 0

getTreeParentRowKey(row) == row._treeData.parentRowKey

\* the tree states of constMap.treeState
treeState == [EXPAND |-> "EXPAND", COLLAPSE |-> "COLLAPSE"]

\* getTreeExpanded(): the stored tree state is EXPAND
getTreeExpanded(row) == row.treeState = treeState.EXPAND

----------------------------------------------------------------------------
(* Flattening (treeRowList.js _flattenRow, _formatData) *)

\* the parent object of a flatten step: the traversal root (ref 0) or the
\* row at index ref of the rows flattened so far
ParentOf(st, ref) == IF ref = 0 THEN st.root ELSE st.flattenedRows[ref]

\* assign parent._treeData.childrenRowKeys of the referenced parent
SetParentChildren(st, ref, arr) ==
    IF ref = 0
    THEN [st EXCEPT !.root._treeData.childrenRowKeys = arr]
    ELSE [st EXCEPT !.flattenedRows[ref]._treeData.childrenRowKeys = arr]

\* FormatRow with the own flag inverted: true for the last sibling only
FormatRow_LastFlagged(treeRows, i, parent, rowKey) ==
    [rowKey |-> rowKey,
     name |-> treeRows[i].name,
     _treeData |->
        [parentRowKey |-> parent.rowKey,
         hasNextSibling |->
            parent._treeData.hasNextSibling \o <<i = Len(treeRows)>>,
         childrenRowKeys |-> Undefined],
     treeState |-> treeState.COLLAPSE]

\* RowList._baseFormat and the _treeData of line 101-104 for the i-th row
FormatRow(treeRows, i, parent, rowKey) ==
    [rowKey |-> rowKey,
     name |-> treeRows[i].name,
     _treeData |->
        [parentRowKey |-> parent.rowKey,
         hasNextSibling |->
            parent._treeData.hasNextSibling \o <<i # Len(treeRows)>>,
         childrenRowKeys |-> Undefined],
     treeState |-> treeState.COLLAPSE]

RECURSIVE _flattenRow(_, _, _)
RECURSIVE FlattenEach(_, _, _, _)

\* the body of the _.each of _flattenRow, from the i-th row on
FlattenEach(treeRows, i, st, ref) ==
    IF i > Len(treeRows) THEN st
    ELSE
      LET rowKey == _createRowKey(st)
          row == FormatRow(treeRows, i, ParentOf(st, ref), rowKey)
          pushed == SetParentChildren(st, ref,
                       Arr(Append(ParentOf(st, ref)._treeData.childrenRowKeys.keys,
                                  rowKey)))
          st1 == [pushed EXCEPT !.flattenedRows = Append(@, row),
                                !.lastRowKey = rowKey]
          st2 == IF treeRows[i]._children.defined
                 THEN _flattenRow(treeRows[i]._children.rows, st1,
                                  Len(st1.flattenedRows))
                 ELSE st1
      IN FlattenEach(treeRows, i + 1, st2, ref)

\* _flattenRow(treeRows, flattenedRows, ancestors): the last ancestor is ref
_flattenRow(treeRows, st, ref) ==
    LET parent == ParentOf(st, ref)
        st0 == IF parent._treeData.childrenRowKeys.defined THEN st
               ELSE SetParentChildren(st, ref, Arr(<<>>))
    IN FlattenEach(treeRows, 1, st0, ref)

\* the options of an append: the parent row key and the offset
Options(parentRowKey, offset) ==
    [given |-> TRUE, parentRowKey |-> parentRowKey, offset |-> offset]

\* a call without options (setOriginal, setData)
NoOptions == [given |-> FALSE, parentRowKey |-> NoKey, offset |-> NoOffset]

\* TraversalRoot with the reset of the root on a fresh load left out
TraversalRoot_NoReset(t, options) ==
    IF options.given /\ options.parentRowKey # NoKey
    THEN [rowKey |-> options.parentRowKey,
          _treeData |->
             [hasNextSibling |-> hasTreeNextSibling(get(t, options.parentRowKey)),
              childrenRowKeys |->
                 Arr(getTreeChildrenRowKeys(get(t, options.parentRowKey)))]]
    ELSE t._rootRow

\* the root the traversal of _formatData starts from (lines 53-72)
TraversalRoot(t, options) ==
    IF options.given /\ options.parentRowKey # NoKey
    THEN [rowKey |-> options.parentRowKey,
          _treeData |->
             [hasNextSibling |-> hasTreeNextSibling(get(t, options.parentRowKey)),
              childrenRowKeys |->
                 Arr(getTreeChildrenRowKeys(get(t, options.parentRowKey)))]]
    ELSE IF options.given THEN t._rootRow
    ELSE createEmptyTreeRowData

\* what the collection holds once the traversal ended at root: this._rootRow
\* is the traversal root unless a parent row was given; the parent row's
\* own childrenRowKeys array is the traversal root's array only if the
\* parent row had one (getTreeChildrenRowKeys returns a new [] otherwise)
StoreRoot(t, options, root) ==
    IF options.given /\ options.parentRowKey # NoKey
    THEN IF get(t, options.parentRowKey)._treeData.childrenRowKeys.defined
         THEN [t EXCEPT !.models[pos(t, options.parentRowKey)]
                            ._treeData.childrenRowKeys =
                                root._treeData.childrenRowKeys]
         ELSE t
    ELSE [t EXCEPT !._rootRow = root]

\* _formatData(data, options): the flattened rows and the collection after
_formatData(t, data, options) ==
    LET st == _flattenRow(data,
                 [root |-> TraversalRoot(t, options),
                  flattenedRows |-> <<>>,
                  lastRowKey |-> t.lastRowKey], 0)
    IN [flattenedRow |-> st.flattenedRows,
        this |-> [StoreRoot(t, options, st.root)
                     EXCEPT !.lastRowKey = st.lastRowKey]]

----------------------------------------------------------------------------
(* Sibling and descendant queries (treeRowList.js) *)

\* Array.prototype.indexOf, 0-based, -1 when absent
arrayIndexOf(keys, rowKey) ==
    IF \E i \in 1..Len(keys) : keys[i] = rowKey
    THEN (CHOOSE i \in 1..Len(keys) :
             keys[i] = rowKey /\ \A j \in 1..(i - 1) : keys[j] # rowKey) - 1
    ELSE -1

\* getTreeSiblingRowKeys(rowKey), for a row the collection holds: the
\* children of its parent row, or of the root when the parent row is undefined
getTreeSiblingRowKeys(t, rowKey) ==
    LET parentRowKey == getTreeParentRowKey(get(t, rowKey))
    IN IF has(t, parentRowKey)
       THEN getTreeChildrenRowKeys(get(t, parentRowKey))
       ELSE t._rootRow._treeData.childrenRowKeys.keys

\* getTreePrevSiblingRowKey(rowKey): NoKey stands for null
getTreePrevSiblingRowKey(t, rowKey) ==
    LET siblingRowKeys == getTreeSiblingRowKeys(t, rowKey)
        currentIndex == arrayIndexOf(siblingRowKeys, rowKey)
    IN IF currentIndex > 0 THEN siblingRowKeys[currentIndex] ELSE NoKey

\* getTreeNextSiblingRowKey(rowKey): NoKey stands for null
getTreeNextSiblingRowKey(t, rowKey) ==
    LET siblingRowKeys == getTreeSiblingRowKeys(t, rowKey)
        currentIndex == arrayIndexOf(siblingRowKeys, rowKey)
    IN IF currentIndex + 1 >= Len(siblingRowKeys) THEN NoKey
       ELSE siblingRowKeys[currentIndex + 2]

\* getTopMostRowKeys(): undefined before the first flatten of the root
getTopMostRowKeys(t) == t._rootRow._treeData.childrenRowKeys

RECURSIVE DescendentLoop(_, _, _)
\* the while loop of getTreeDescendentRowKeys; threw when a key of the queue
\* is no row of the collection (getTreeChildrenRowKeys of undefined)
DescendentLoop(t, rowKeys, index) ==
    IF index >= Len(rowKeys) THEN [threw |-> FALSE, rowKeys |-> rowKeys]
    ELSE IF ~has(t, rowKeys[index + 1])
         THEN [threw |-> TRUE, rowKeys |-> rowKeys]
         ELSE DescendentLoop(t,
                 rowKeys \o getTreeChildrenRowKeys(get(t, rowKeys[index + 1])),
                 index + 1)

\* getTreeDescendentRowKeys(rowKey): breadth first, the row itself shifted out
getTreeDescendentRowKeys(t, rowKey) ==
    LET r == DescendentLoop(t, <<rowKey>>, 0)
    IN [threw |-> r.threw, rowKeys |-> Tail(r.rowKeys)]

----------------------------------------------------------------------------
(* Insertion index (treeRowList.js _indexOfParentRowKeyAndOffset) *)

Max(a, b) == IF a >= b THEN a ELSE b
Min(a, b) == IF a <= b THEN a ELSE b

\* the flat index (0-based) at which a row given parentRowKey and offset is
\* inserted; threw on a TypeError. An offset not given is NaN after Math.max,
\* for which both comparisons of lines 137 and 141 are false.
_indexOfParentRowKeyAndOffset(t, parentRowKey, offset) ==
    LET isParent == has(t, parentRowKey)
        childrenRowKeys ==
            IF isParent THEN Arr(getTreeChildrenRowKeys(get(t, parentRowKey)))
            ELSE t._rootRow._treeData.childrenRowKeys
        at0 == IF isParent THEN indexOf(t, parentRowKey) ELSE -1
        length == Len(childrenRowKeys.keys)
        isNaN == offset = NoOffset
        clamped == Min(Max(0, offset), length)
    IN IF ~childrenRowKeys.defined THEN [threw |-> TRUE, at |-> at0]
       ELSE IF length = 0 \/ (~isNaN /\ clamped = 0)
            THEN [threw |-> FALSE, at |-> at0 + 1]
       ELSE IF ~isNaN /\ length > clamped
            THEN [threw |-> FALSE,
                  at |-> indexOf(t, childrenRowKeys.keys[clamped + 1])]
       ELSE LET at == indexOf(t, childrenRowKeys.keys[length])
                d == getTreeDescendentRowKeys(t, at)
            IN [threw |-> d.threw, at |-> at + Len(d.rowKeys) + 1]

----------------------------------------------------------------------------
(* Sibling flag resynchronisation (treeRowList.js _syncHasTreeNextSiblingData) *)

\* arr[index] = value on a JavaScript array (0-based); holes read as false
SetAt(arr, index, value) ==
    [i \in 1..Max(Len(arr), index + 1) |->
        IF i = index + 1 THEN value
        ELSE IF i <= Len(arr) THEN arr[i] ELSE FALSE]

\* SetFlag writing one position further, at index + 1
SetFlag_AtDepth(t, rowKey, index, value) ==
    [t EXCEPT !.models[pos(t, rowKey)]._treeData.hasNextSibling =
                  SetAt(@, index + 1, value)]

\* row.hasTreeNextSibling()[index] = value on the row of rowKey
SetFlag(t, rowKey, index, value) ==
    [t EXCEPT !.models[pos(t, rowKey)]._treeData.hasNextSibling =
                  SetAt(@, index, value)]

\* _syncHasTreeNextSiblingData writing the previous sibling's flag at index 0
_syncHasTreeNextSiblingData_TopFlag(t, rowKey) ==
    IF ~has(t, rowKey) THEN t
    ELSE
      LET currentDepth == getTreeDepth(get(t, rowKey))
          prevSiblingRowKey == getTreePrevSiblingRowKey(t, rowKey)
          nextSiblingRowKey == getTreeNextSiblingRowKey(t, rowKey)
          t1 == SetFlag(t, rowKey, currentDepth - 1, has(t, nextSiblingRowKey))
      IN IF has(t, prevSiblingRowKey)
         THEN SetFlag(t1, prevSiblingRowKey, 0, TRUE)
         ELSE t1

\* _syncHasTreeNextSiblingData(rowKey), lines 160-177
_syncHasTreeNextSiblingData(t, rowKey) ==
    IF ~has(t, rowKey) THEN t
    ELSE
      LET currentDepth == getTreeDepth(get(t, rowKey))
          prevSiblingRowKey == getTreePrevSiblingRowKey(t, rowKey)
          nextSiblingRowKey == getTreeNextSiblingRowKey(t, rowKey)
          t1 == SetFlag(t, rowKey, currentDepth - 1, has(t, nextSiblingRowKey))
      IN IF has(t, prevSiblingRowKey)
         THEN SetFlag(t1, prevSiblingRowKey, currentDepth - 1, TRUE)
         ELSE t1

----------------------------------------------------------------------------
(* Notifications *)

\* a notification: its name, whether it carries a payload, the row keys and
\* the flat index of the payload
Event(name, given, rowKeys, index) ==
    [name |-> name, given |-> given, rowKeys |-> rowKeys, index |-> index]

----------------------------------------------------------------------------
(* Operations *)

Op(name, rowKey, options, data, recursive, silent) ==
    [name |-> name, rowKey |-> rowKey, options |-> options, data |-> data,
     recursive |-> recursive, silent |-> silent]

\* the collection after an operation, with its notifications and outcome
Result(t, ev, e) == [this |-> t, events |-> ev, err |-> e]

Commit(res, op) ==
    /\ models' = res.this.models
    /\ _rootRow' = res.this._rootRow
    /\ lastRowKey' = res.this.lastRowKey
    /\ events' = res.events
    /\ err' = res.err
    /\ lastOp' = op

\* RowList.setData / setOriginal: the key counter restarts, the models are
\* replaced by _formatData(data) called without options
setData(t, data) ==
    LET f == _formatData([t EXCEPT !.lastRowKey = -1], data, NoOptions)
    IN Result([f.this EXCEPT !.models = f.flattenedRow], <<>>, "none")

setRows ==
    \E data \in LoadInputs :
        /\ CountRows(data) <= MaxRows
        /\ Commit(setData(this, data),
                  Op("setRows", NoKey, NoOptions, data, FALSE, FALSE))

\* Backbone's add(modelList, {at: at}): splice the rows in at index at
InsertAt(seq, at, rows) ==
    LET a == Min(Max(at, 0), Len(seq))
    IN SubSeq(seq, 1, a) \o rows \o SubSeq(seq, a + 1, Len(seq))

RowKeys(rows) == [i \in 1..Len(rows) |-> rows[i].rowKey]

\* RowList._append(rowData, options): format the row data, add the models
\* at options.at
_append(t, rowData, options, at) ==
    LET f == _formatData(t, rowData, options)
    IN [modelList |-> f.flattenedRow,
        this |-> [f.this EXCEPT !.models = InsertAt(@, at, f.flattenedRow)]]

\* append(rowData, options), lines 189-206
append(t, rowData, options) ==
    LET idx == _indexOfParentRowKeyAndOffset(t, options.parentRowKey,
                                             options.offset)
    IN IF idx.threw THEN Result(t, <<>>, "TypeError")
       ELSE
         LET a == _append(t, rowData, options, idx.at)
             modelList == a.modelList
             t1 == _syncHasTreeNextSiblingData(a.this, modelList[1].rowKey)
             t2 == IF Len(modelList) > 1
                   THEN _syncHasTreeNextSiblingData(t1,
                           modelList[Len(modelList)].rowKey)
                   ELSE t1
         IN Result(t2, <<Event("add", TRUE, RowKeys(modelList), idx.at)>>,
                   "none")

\* prepend(rowData, options), lines 215-221
prepend(t, rowData) == append(t, rowData, Options(NoKey, 0))

\* the parent row keys an append is called with: a row of the collection,
\* or none
ParentKeys == {models[i].rowKey : i \in 1..Len(models)} \cup {NoKey}

\* the offsets an append is called with: negative, in range, beyond the
\* children, or not given
Offsets == {-1, 0, 1, 2, NoOffset}

AppendOp ==
    \E rowData \in AppendInputs, parentRowKey \in ParentKeys,
       offset \in Offsets :
        /\ Len(models) + CountRows(rowData) <= MaxRows
        /\ lastRowKey + CountRows(rowData) <= MaxKey
        /\ Commit(append(this, rowData, Options(parentRowKey, offset)),
                  Op("append", NoKey, Options(parentRowKey, offset), <<>>,
                     FALSE, FALSE))

PrependOp ==
    \E rowData \in AppendInputs :
        /\ Len(models) + CountRows(rowData) <= MaxRows
        /\ lastRowKey + CountRows(rowData) <= MaxKey
        /\ Commit(prepend(this, rowData),
                  Op("prepend", NoKey, Options(NoKey, 0), <<>>,
                     FALSE, FALSE))

----------------------------------------------------------------------------
(* Removal (treeRowList.js _removeChildFromParent, _removeRow, removeRow) *)

RECURSIVE Filter(_, _)
\* _.filter(keys, k => k !== rowKey)
Filter(keys, rowKey) ==
    IF keys = <<>> THEN <<>>
    ELSE IF Head(keys) = rowKey THEN Filter(Tail(keys), rowKey)
    ELSE <<Head(keys)>> \o Filter(Tail(keys), rowKey)

RECURSIVE Reverse(_)
Reverse(seq) ==
    IF seq = <<>> THEN <<>> ELSE Append(Reverse(Tail(seq)), Head(seq))

\* _removeChildFromParent(childRowKey): TreeRow defines no method
\* removeTreeChildrenRowKey, so the call on a parent row is a TypeError;
\* a row without parent row is filtered out of the root's children
_removeChildFromParent(t, childRowKey) ==
    IF ~has(t, childRowKey) THEN [threw |-> TRUE, this |-> t]
    ELSE IF has(t, getTreeParentRowKey(get(t, childRowKey)))
         THEN [threw |-> TRUE, this |-> t]
         ELSE [threw |-> FALSE,
               this |-> [t EXCEPT !._rootRow._treeData.childrenRowKeys =
                                      Arr(Filter(@.keys, childRowKey))]]

\* RowList.prototype._removeRow: the row leaves the collection
BaseRemoveRow(t, rowKey) ==
    [t EXCEPT !.models =
        SubSeq(@, 1, pos(t, rowKey) - 1) \o SubSeq(@, pos(t, rowKey) + 1, Len(@))]

\* _removeRow(rowKey, options), lines 237-240
_removeRow(t, rowKey) ==
    LET r == _removeChildFromParent(t, rowKey)
    IN IF r.threw THEN r
       ELSE [threw |-> FALSE, this |-> BaseRemoveRow(r.this, rowKey)]

RECURSIVE RemoveEach(_, _, _)
\* the _.each of removeRow from the i-th key on; stops at the first throw
RemoveEach(t, rowKeys, i) ==
    IF i > Len(rowKeys) THEN [threw |-> FALSE, this |-> t]
    ELSE LET r == _removeRow(t, rowKeys[i])
         IN IF r.threw THEN r ELSE RemoveEach(r.this, rowKeys, i + 1)

RECURSIVE RemovedKeys(_, _, _)
\* the keys the _.each of removeRow has removed, in the order of their
\* removal, when it ends or is ended by a throw
RemovedKeys(t, rowKeys, i) ==
    IF i > Len(rowKeys) THEN <<>>
    ELSE LET r == _removeRow(t, rowKeys[i])
         IN IF r.threw THEN <<>>
            ELSE <<rowKeys[i]>> \o RemovedKeys(r.this, rowKeys, i + 1)

\* removeRow(rowKey, options), lines 250-275: the previous sibling is looked
\* up (through this.get(rowKey).getTreeParentRowKey()) before the test of row
removeRow(t, rowKey) ==
    IF ~has(t, rowKey) THEN Result(t, <<>>, "TypeError")
    ELSE
      LET currentIndex == indexOf(t, rowKey)
          prevSiblingRowKey == getTreePrevSiblingRowKey(t, rowKey)
          d == getTreeDescendentRowKeys(t, rowKey)
          descendantRowKeys == Append(Reverse(d.rowKeys), rowKey)
          r == RemoveEach(t, descendantRowKeys, 1)
      IN IF d.threw THEN Result(t, <<>>, "TypeError")
         ELSE IF r.threw THEN Result(r.this, <<>>, "TypeError")
         ELSE Result(IF prevSiblingRowKey # NoKey
                     THEN _syncHasTreeNextSiblingData(r.this, prevSiblingRowKey)
                     ELSE r.this,
                     <<Event("remove", TRUE, <<rowKey>>, currentIndex)>>,
                     "none")

\* the row keys the callers pass: keys the counter may have handed out,
\* whether or not their row is still in the collection
CallKeys == 0..MaxKey

RemoveRowOp ==
    \E rowKey \in CallKeys :
        /\ Commit(removeRow(this, rowKey),
                  Op("removeRow", rowKey, NoOptions, <<>>, FALSE, FALSE))

----------------------------------------------------------------------------
(* Expanding and collapsing (treeRow.js setTreeExpanded; treeRowList.js
   treeExpand, treeExpandAll, treeCollapse, treeCollapseAll) *)

\* setTreeExpanded firing the row's change event on every call
setTreeExpanded_AlwaysChanged(t, rowKey, state) ==
    [this |-> [t EXCEPT !.models[pos(t, rowKey)].treeState =
                      IF state THEN treeState.EXPAND ELSE treeState.COLLAPSE],
     events |-> <<Event("changed", TRUE, <<rowKey>>, -1)>>]

\* row.setTreeExpanded(state) on the row of rowKey: the tree state is set,
\* and the row's change event fires only when the state differs
setTreeExpanded(t, rowKey, state) ==
    LET prevState == getTreeExpanded(get(t, rowKey))
    IN [this |-> [t EXCEPT !.models[pos(t, rowKey)].treeState =
                      IF state THEN treeState.EXPAND ELSE treeState.COLLAPSE],
        events |-> IF state # prevState
                   THEN <<Event("changed", TRUE, <<rowKey>>, -1)>>
                   ELSE <<>>]

RECURSIVE SetExpandedEach(_, _, _, _, _)
\* the loop over the descendent rows: those having children get the state
SetExpandedEach(t, rowKeys, i, state, ev) ==
    IF i > Len(rowKeys) THEN [this |-> t, events |-> ev]
    ELSE IF hasTreeChildren(get(t, rowKeys[i]))
         THEN LET r == setTreeExpanded(t, rowKeys[i], state)
              IN SetExpandedEach(r.this, rowKeys, i + 1, state, ev \o r.events)
         ELSE SetExpandedEach(t, rowKeys, i + 1, state, ev)

\* ExpandOrCollapse setting the descendants also when not recursive
ExpandOrCollapse_Deep(t, rowKey, recursive, silent, state, name) ==
    IF ~has(t, rowKey) THEN Result(t, <<>>, "TypeError")
    ELSE
      LET r == setTreeExpanded(t, rowKey, state)
          d == getTreeDescendentRowKeys(r.this, rowKey)
          e == SetExpandedEach(r.this, d.rowKeys, 1, state, r.events)
          children == getTreeChildrenRowKeys(get(t, rowKey))
      IN IF d.threw THEN Result(r.this, r.events, "TypeError")
         ELSE Result(e.this,
                e.events \o (IF silent THEN <<>>
                             ELSE <<Event(name, TRUE,
                                          IF recursive THEN d.rowKeys
                                          ELSE children, -1)>>),
                "none")

\* the common body of treeExpand (state TRUE, 'expanded') and treeCollapse
\* (state FALSE, 'collapsed'): row.setTreeExpanded on an undefined row throws
ExpandOrCollapse(t, rowKey, recursive, silent, state, name) ==
    IF ~has(t, rowKey) THEN Result(t, <<>>, "TypeError")
    ELSE
      LET r == setTreeExpanded(t, rowKey, state)
          d == getTreeDescendentRowKeys(r.this, rowKey)
          e == SetExpandedEach(r.this, d.rowKeys, 1, state, r.events)
          children == getTreeChildrenRowKeys(get(t, rowKey))
      IN IF recursive
         THEN IF d.threw THEN Result(r.this, r.events, "TypeError")
              ELSE Result(e.this,
                     e.events \o (IF silent THEN <<>>
                                  ELSE <<Event(name, TRUE, d.rowKeys, -1)>>),
                     "none")
         ELSE Result(r.this,
                r.events \o (IF silent THEN <<>>
                             ELSE <<Event(name, TRUE, children, -1)>>),
                "none")

\* treeExpand(rowKey, recursive, silent), lines 363-385
treeExpand(t, rowKey, recursive, silent) ==
    ExpandOrCollapse(t, rowKey, recursive, silent, TRUE, "expanded")

\* treeCollapse(rowKey, recursive, silent), lines 407-429
treeCollapse(t, rowKey, recursive, silent) ==
    ExpandOrCollapse(t, rowKey, recursive, silent, FALSE, "collapsed")

RECURSIVE AllEach(_, _, _, _, _)
\* the _.each of treeExpandAll / treeCollapseAll over the top most row keys
AllEach(t, rowKeys, i, state, ev) ==
    IF i > Len(rowKeys) THEN Result(t, ev, "none")
    ELSE LET r == IF state THEN treeExpand(t, rowKeys[i], TRUE, TRUE)
                  ELSE treeCollapse(t, rowKeys[i], TRUE, TRUE)
         IN IF r.err # "none" THEN Result(r.this, ev \o r.events, r.err)
            ELSE AllEach(r.this, rowKeys, i + 1, state, ev \o r.events)

\* treeExpandAll(), lines 390-398: one 'expanded' without payload at the end
treeExpandAll(t) ==
    LET r == AllEach(t, getTopMostRowKeys(t).keys, 1, TRUE, <<>>)
    IN IF r.err # "none" THEN r
       ELSE Result(r.this, r.events \o <<Event("expanded", FALSE, <<>>, -1)>>,
                   "none")

\* treeCollapseAll(), lines 434-442
treeCollapseAll(t) ==
    LET r == AllEach(t, getTopMostRowKeys(t).keys, 1, FALSE, <<>>)
    IN IF r.err # "none" THEN r
       ELSE Result(r.this, r.events \o <<Event("collapsed", FALSE, <<>>, -1)>>,
                   "none")

ExpandOp ==
    \E rowKey \in CallKeys, recursive \in BOOLEAN, silent \in BOOLEAN :
        /\ Commit(treeExpand(this, rowKey, recursive, silent),
                  Op("expand", rowKey, NoOptions, <<>>, recursive, silent))

CollapseOp ==
    \E rowKey \in CallKeys, recursive \in BOOLEAN, silent \in BOOLEAN :
        /\ Commit(treeCollapse(this, rowKey, recursive, silent),
                  Op("collapse", rowKey, NoOptions, <<>>, recursive, silent))

ExpandAllOp ==
    /\ Commit(treeExpandAll(this),
              Op("expandAll", NoKey, NoOptions, <<>>, TRUE, TRUE))

CollapseAllOp ==
    /\ Commit(treeCollapseAll(this),
              Op("collapseAll", NoKey, NoOptions, <<>>, TRUE, TRUE))

----------------------------------------------------------------------------
(* Specifications *)

Init ==
    /\ models = <<>>
    /\ _rootRow = createEmptyTreeRowData
    /\ lastRowKey = -1
    /\ events = <<>>
    /\ err = "none"
    /\ lastOp = Op("initialize", NoKey, NoOptions, <<>>, FALSE, FALSE)

\* the structural operations
Next ==
    \/ setRows
    \/ AppendOp
    \/ PrependOp
    \/ RemoveRowOp

Spec == Init /\ [][Next]_vars

\* bulk loads and the expand / collapse operations
NextExpand ==
    \/ setRows
    \/ ExpandOp
    \/ CollapseOp
    \/ ExpandAllOp
    \/ CollapseAllOp

SpecExpand == Init /\ [][NextExpand]_vars

\* append(rowData, {parentRowKey: key}) without offset: new rows as the last
\* children of a row of the collection
AppendUnderOp ==
    \E rowData \in AppendInputs, parentRowKey \in ParentKeys \ {NoKey} :
        /\ Len(models) + CountRows(rowData) <= MaxRows
        /\ lastRowKey + CountRows(rowData) <= MaxKey
        /\ Commit(append(this, rowData, Options(parentRowKey, NoOffset)),
                  Op("append", NoKey, Options(parentRowKey, NoOffset), <<>>,
                     FALSE, FALSE))

\* bulk loads, appends under a row, and the expand / collapse operations
NextGrowExpand ==
    \/ setRows
    \/ AppendUnderOp
    \/ ExpandOp
    \/ CollapseOp
    \/ ExpandAllOp
    \/ CollapseAllOp

SpecGrowExpand == Init /\ [][NextGrowExpand]_vars

----------------------------------------------------------------------------
(* The tree the collection describes, read off the state *)

\* the collection after the step
thisNext == [models |-> models', _rootRow |-> _rootRow',
             lastRowKey |-> lastRowKey']

\* the row keys of the collection
KeySet(t) == {t.models[i].rowKey : i \in 1..Len(t.models)}

\* the children keys of the synthetic root
RootChildren(t) == t._rootRow._treeData.childrenRowKeys.keys

RECURSIVE PreOrderKeys(_, _)
\* pre-order traversal along childrenRowKeys, starting with the keys given
PreOrderKeys(t, keys) ==
    IF keys = <<>> THEN <<>>
    ELSE <<Head(keys)>>
         \o (IF has(t, Head(keys))
             THEN PreOrderKeys(t, getTreeChildrenRowKeys(get(t, Head(keys))))
             ELSE <<>>)
         \o PreOrderKeys(t, Tail(keys))

RECURSIVE PreOrderNames(_)
\* pre-order traversal of a nested input, by name
PreOrderNames(treeRows) ==
    IF treeRows = <<>> THEN <<>>
    ELSE <<Head(treeRows).name>>
         \o (IF Head(treeRows)._children.defined
             THEN PreOrderNames(Head(treeRows)._children.rows) ELSE <<>>)
         \o PreOrderNames(Tail(treeRows))

RowNames(rows) == [i \in 1..Len(rows) |-> rows[i].name]

\* number of times a key occurs in a list of keys
Occurrences(keys, rowKey) == Cardinality({i \in 1..Len(keys) : keys[i] = rowKey})

\* the children list a row belongs to by its parentRowKey: the root's for a
\* top-level row, the parent row's otherwise (empty if that row is gone)
ParentChildren(t, row) ==
    IF getTreeParentRowKey(row) = NoKey THEN RootChildren(t)
    ELSE IF has(t, getTreeParentRowKey(row))
         THEN getTreeChildrenRowKeys(get(t, getTreeParentRowKey(row)))
         ELSE <<>>

\* the row is the last entry of the list
IsLast(keys, rowKey) == keys # <<>> /\ keys[Len(keys)] = rowKey

RECURSIVE Ancestors(_, _)
\* the keys of the ancestor chain of a row, followed through parentRowKey
Ancestors(t, rowKey) ==
    IF ~has(t, rowKey) THEN {}
    ELSE LET p == getTreeParentRowKey(get(t, rowKey))
         IN IF p = NoKey THEN {} ELSE {p} \cup Ancestors(t, p)

\* the rows whose ancestor chain includes rowKey
DescendantSet(t, rowKey) == {k \in KeySet(t) : rowKey \in Ancestors(t, k)}

Range(seq) == {seq[i] : i \in 1..Len(seq)}

----------------------------------------------------------------------------
(* Claims *)

\* C1: after a fresh bulk load setRows(nestedInput) without parentKey, from
\* any state, the flat sequence is the pre-order traversal of the nested
\* input and the pre-order traversal along the root's and the rows'
\* childrenKeys; no key of an earlier load stays in the root's childrenKeys.
C1_FreshLoadPreOrder ==
    lastOp.name = "setRows" =>
        /\ RowNames(models) = PreOrderNames(lastOp.data)
        /\ RowKeys(models) = PreOrderKeys(this, RootChildren(this))
        /\ Len(RootChildren(this)) = Len(lastOp.data)

\* a load of a{b{c}, e}: four rows over three levels
C1_Witness ==
    /\ lastOp.name = "setRows"
    /\ RowNames(models) = <<"a", "b", "c", "e">>
    /\ getTreeDepth(models[3]) = 3
    /\ getTreeDepth(models[4]) = 2

\* C2: in every reachable state the flat sequence is the pre-order
\* traversal of the tree given by the root's and the rows' childrenKeys.
C2_PreOrderInvariant ==
    RowKeys(models) = PreOrderKeys(this, RootChildren(this))

\* C3: every row with a parentKey has an existing parent row whose
\* childrenKeys holds the row's key exactly once; every top-level row is in
\* the root's childrenKeys exactly once; no childrenKeys holds a key that is
\* absent from the collection.
C3_ParentChildLinks ==
    /\ \A i \in 1..Len(models) :
          LET row == models[i]
              p == getTreeParentRowKey(row)
          IN /\ p # NoKey => /\ has(this, p)
                              /\ Occurrences(getTreeChildrenRowKeys(get(this, p)),
                                             row.rowKey) = 1
             /\ p = NoKey => Occurrences(RootChildren(this), row.rowKey) = 1
             /\ Range(getTreeChildrenRowKeys(row)) \subseteq KeySet(this)
    /\ Range(RootChildren(this)) \subseteq KeySet(this)

\* C4: for every row, the sibling flag at its own depth is true iff the row
\* is not the last entry of its parent's (the root's) childrenKeys.
C4_OwnSiblingFlag ==
    \A i \in 1..Len(models) :
        LET row == models[i]
        IN hasTreeNextSibling(row)[getTreeDepth(row)]
             = ~IsLast(ParentChildren(this, row), row.rowKey)

\* C5: for every row and every index below its depth the flag is true iff
\* the ancestor at that level (the row itself for the last index) has a
\* subsequent sibling: the inherited prefix of a row's flags equals its
\* parent's current flags, and its own flag tells whether a sibling follows.
C5_InheritedSiblingFlags ==
    \A i \in 1..Len(models) :
        LET row == models[i]
            p == getTreeParentRowKey(row)
            siblings == ParentChildren(this, row)
        IN /\ (p # NoKey /\ has(this, p)) =>
                 SubSeq(hasTreeNextSibling(row), 1, getTreeDepth(row) - 1)
                   = hasTreeNextSibling(get(this, p))
           /\ hasTreeNextSibling(row)[getTreeDepth(row)]
                = (\E j \in 1..(Len(siblings) - 1) : siblings[j] = row.rowKey)

\* C6: removeRow(r) on an existing row r completes; afterwards r and every
\* descendant of r are gone, all other rows remain, and no remaining row's
\* childrenKeys or parentKey, nor the root's childrenKeys, names a removed key.
C6_RemoveCascade ==
    [][(lastOp'.name = "removeRow" /\ has(this, lastOp'.rowKey)) =>
         LET gone == {lastOp'.rowKey} \cup DescendantSet(this, lastOp'.rowKey)
         IN /\ err' = "none"
            /\ KeySet(thisNext) = KeySet(this) \ gone
            /\ \A i \in 1..Len(models') :
                  /\ getTreeParentRowKey(models'[i]) \notin gone
                  /\ Range(getTreeChildrenRowKeys(models'[i])) \cap gone = {}
            /\ Range(RootChildren(thisNext)) \cap gone = {}]_vars

\* C7: removeRow(rowKey) with a rowKey that is not in the collection is a
\* no-op: it does not fail, leaves the flat sequence, the tree metadata and
\* the root unchanged, and emits no 'remove' notification.
C7_RemoveMissingIsNoOp ==
    [][(lastOp'.name = "removeRow" /\ ~has(this, lastOp'.rowKey)) =>
         /\ err' = "none"
         /\ events' = <<>>
         /\ models' = models
         /\ _rootRow' = _rootRow]_vars

\* C8: expand and collapse with a rowKey that is not in the collection are
\* silent no-ops: they do not fail and change no row's expanded flag.
C8_ExpandMissingIsNoOp ==
    [][(lastOp'.name \in {"expand", "collapse"} /\ ~has(this, lastOp'.rowKey)) =>
         /\ err' = "none"
         /\ models' = models]_vars

\* C9: for every parent (a row or the root) with at least one child and every
\* offset not below the number of its children, or not given, the insertion
\* index is the flat index of the last child plus 1 plus the number of that
\* child's descendants, whatever the row keys are.
C9_IndexAfterLastSubtree ==
    \A p \in KeySet(this) \cup {NoKey} :
        LET children == IF p = NoKey THEN RootChildren(this)
                        ELSE getTreeChildrenRowKeys(get(this, p))
            n == Len(children)
        IN n >= 1 =>
             \A offset \in {n, n + 1, NoOffset} :
                LET r == _indexOfParentRowKeyAndOffset(this, p, offset)
                    d == getTreeDescendentRowKeys(this, children[n])
                IN /\ ~r.threw
                   /\ r.at = indexOf(this, children[n]) + 1 + Len(d.rowKeys)

\* C10: for every row r, getDescendantKeys(r) holds exactly the keys of the
\* rows whose ancestor chain, followed through parentKey, includes r, each
\* once, and never r itself.
C10_DescendantCompleteness ==
    \A k \in KeySet(this) :
        LET d == getTreeDescendentRowKeys(this, k)
        IN /\ ~d.threw
           /\ Range(d.rowKeys) = DescendantSet(this, k)
           /\ Cardinality(Range(d.rowKeys)) = Len(d.rowKeys)
           /\ k \notin Range(d.rowKeys)

----------------------------------------------------------------------------
(* What holds of the sibling flags and of the descendant walk in the states
   whose parent and child links are intact *)

\* with intact links, the own-depth flag of every row tells whether the row
\* is followed in its parent's childrenRowKeys
OwnFlagWhereLinked == C3_ParentChildLinks => C4_OwnSiblingFlag

\* with intact links, the descendant walk returns the descendant set
DescendantsWhereLinked == C3_ParentChildLinks => C10_DescendantCompleteness

----------------------------------------------------------------------------
(* Claims on insertion at an offset, loading, depth and position *)

\* C11: after append(row, {parentKey: P, offset: k}) of one row under an
\* existing row P that has n children, 0 <= k < n, the new row sits in the
\* flat sequence immediately before the child that was at offset k, the new
\* row's own-depth sibling flag is true, and the own-depth flag of its
\* preceding sibling (the child at offset k - 1, if any) is true.
C11_AppendBeforeChildAtOffset ==
    [][(/\ lastOp'.name = "append"
        /\ has(this, lastOp'.options.parentRowKey)
        /\ lastOp'.options.offset >= 0
        /\ lastOp'.options.offset
             < Len(getTreeChildrenRowKeys(get(this, lastOp'.options.parentRowKey)))
        /\ err' = "none"
        /\ Len(events'[1].rowKeys) = 1) =>
         LET children == getTreeChildrenRowKeys(
                             get(this, lastOp'.options.parentRowKey))
             k == lastOp'.options.offset
             new == get(thisNext, events'[1].rowKeys[1])
         IN /\ indexOf(thisNext, children[k + 1])
                 = indexOf(thisNext, new.rowKey) + 1
            /\ hasTreeNextSibling(new)[getTreeDepth(new)]
            /\ k >= 1 =>
                 LET prev == get(thisNext, children[k])
                 IN hasTreeNextSibling(prev)[getTreeDepth(prev)]]_vars

\* the nested input [{a, children: [{b}, {c}]}]
LoadABC == <<Node("a", <<Leaf("b"), Leaf("c")>>)>>

\* C12 as stated: a fresh load of [{a, children: [{b}, {c}]}] yields the
\* flat sequence [a, b, c] with a at depth 1 and flags [false], b at depth 2
\* and flags [false, false], c at depth 2 and flags [false, true].
C12_LoadFlagsAsStated ==
    (lastOp.name = "setRows" /\ lastOp.data = LoadABC) =>
        /\ RowNames(models) = <<"a", "b", "c">>
        /\ hasTreeNextSibling(models[1]) = <<FALSE>>
        /\ hasTreeNextSibling(models[2]) = <<FALSE, FALSE>>
        /\ hasTreeNextSibling(models[3]) = <<FALSE, TRUE>>

\* C12, amended: a fresh load of [{a, children: [{b}, {c}]}] yields the flat
\* sequence [a, b, c] with a at depth 1 and flags [false], b at depth 2 and
\* flags [false, true] (c follows b), c at depth 2 and flags [false, false]
\* (c is the last child).
C12_LoadFlags ==
    (lastOp.name = "setRows" /\ lastOp.data = LoadABC) =>
        /\ RowNames(models) = <<"a", "b", "c">>
        /\ getTreeDepth(models[1]) = 1
        /\ getTreeDepth(models[2]) = 2
        /\ getTreeDepth(models[3]) = 2
        /\ hasTreeNextSibling(models[1]) = <<FALSE>>
        /\ hasTreeNextSibling(models[2]) = <<FALSE, TRUE>>
        /\ hasTreeNextSibling(models[3]) = <<FALSE, FALSE>>

\* the load of [{a, children: [{b}, {c}]}] has taken place: three rows, keys 0..2
C12_Witness ==
    /\ lastOp.name = "setRows"
    /\ lastOp.data = LoadABC
    /\ Len(models) = 3
    /\ lastRowKey = 2

\* C13: in every state reachable by setRows, append (under any existing
\* parent or the root), prepend and removeRow, every top-level row has depth
\* 1 and every row's depth (the length of its sibling flags) is the depth of
\* its parent row plus 1.
C13_DepthIsParentDepthPlusOne ==
    \A i \in 1..Len(models) :
        LET row == models[i]
            p == getTreeParentRowKey(row)
        IN /\ p = NoKey => getTreeDepth(row) = 1
           /\ (p # NoKey /\ has(this, p)) =>
                 getTreeDepth(row) = getTreeDepth(get(this, p)) + 1

\* an append under a row of depth 2 has put a new row at depth 3
C13_Witness ==
    /\ lastOp.name = "append"
    /\ err = "none"
    /\ \E i \in 1..Len(models) :
          /\ models[i].name \in {"x", "y"}
          /\ getTreeDepth(models[i]) = 3
          /\ has(this, getTreeParentRowKey(models[i]))
          /\ getTreeDepth(get(this, getTreeParentRowKey(models[i]))) = 2

\* C14: for every parent p (an existing row or the synthetic root), whatever
\* the number of its children, the insertion index for offset 0 is the flat
\* index immediately after p (0 for the root), and a negative offset gives
\* the same index.
C14_IndexAtOffsetZero ==
    \A p \in KeySet(this) \cup {NoKey} :
        \A offset \in {0, -1} :
            LET r == _indexOfParentRowKeyAndOffset(this, p, offset)
            IN /\ ~r.threw
               /\ r.at = indexOf(this, p) + 1

\* once the root's children list exists (after the first load), offset 0 and
\* negative offsets give the index immediately after the parent
IndexAtOffsetZeroOnceLoaded ==
    getTopMostRowKeys(this).defined => C14_IndexAtOffsetZero

----------------------------------------------------------------------------
(* Claims on expanding and collapsing *)

\* the expanded values the rows have after a recursive expand or collapse of
\* rowKey to state: the row itself and its descendants having children get
\* state, every other row keeps its value
ExpandedAfterRecursive(rowKey, state) ==
    /\ Len(models') = Len(models)
    /\ \A i \in 1..Len(models) :
          getTreeExpanded(models'[i]) =
             IF \/ models[i].rowKey = rowKey
                \/ /\ models[i].rowKey \in DescendantSet(this, rowKey)
                   /\ hasTreeChildren(models[i])
             THEN state
             ELSE getTreeExpanded(models[i])

\* C15: expand(r, recursive = true) on an existing row r sets expanded = true
\* on r and on every descendant of r that has children, and leaves the
\* expanded value of every leaf descendant and of every row outside r's
\* subtree unchanged; collapse(r, recursive = true) does the same with false.
C15_RecursiveExpand ==
    [][(/\ lastOp'.name \in {"expand", "collapse"}
        /\ lastOp'.recursive
        /\ has(this, lastOp'.rowKey)) =>
         /\ err' = "none"
         /\ ExpandedAfterRecursive(lastOp'.rowKey, lastOp'.name = "expand")]_vars

\* in the states whose parent and child links are intact, a recursive expand
\* or collapse sets exactly the row and its descendants having children
RecursiveExpandWhereLinked ==
    [][(/\ lastOp'.name \in {"expand", "collapse"}
        /\ lastOp'.recursive
        /\ has(this, lastOp'.rowKey)
        /\ C3_ParentChildLinks) =>
         /\ err' = "none"
         /\ ExpandedAfterRecursive(lastOp'.rowKey, lastOp'.name = "expand")]_vars

\* number of 'changed' signals of the row of rowKey among the notifications
ChangedSignals(ev, rowKey) ==
    Cardinality({j \in 1..Len(ev) :
                    ev[j].name = "changed" /\ ev[j].rowKeys = <<rowKey>>})

\* C16: setExpanded(state) on a row (the one call a non-recursive expand or
\* collapse makes) emits the row's 'changed' signal if and only if state
\* differs from the row's expanded value before the call; with the same state
\* it emits nothing and leaves expanded unchanged.
C16_ChangedIffStateDiffers ==
    [][(/\ lastOp'.name \in {"expand", "collapse"}
        /\ ~lastOp'.recursive
        /\ has(this, lastOp'.rowKey)) =>
         LET state == lastOp'.name = "expand"
             prevState == getTreeExpanded(get(this, lastOp'.rowKey))
         IN /\ ChangedSignals(events', lastOp'.rowKey)
                 = (IF state # prevState THEN 1 ELSE 0)
            /\ getTreeExpanded(get(thisNext, lastOp'.rowKey)) = state
            /\ state = prevState => models' = models]_vars

\* expand was called on a row that was expanded already: the row is
\* expanded and no 'changed' signal was emitted
C16_Witness ==
    /\ lastOp.name = "expand"
    /\ ~lastOp.recursive
    /\ has(this, lastOp.rowKey)
    /\ getTreeExpanded(get(this, lastOp.rowKey))
    /\ ChangedSignals(events, lastOp.rowKey) = 0

\* what expandAll (state TRUE, 'expanded') and collapseAll (state FALSE,
\* 'collapsed') leave: every row having children has the state, and the one
\* notification of that name is the last one and carries no payload
AfterAll(state, name) ==
    /\ err' = "none"
    /\ \A i \in 1..Len(models') :
          hasTreeChildren(models'[i]) => getTreeExpanded(models'[i]) = state
    /\ Cardinality({j \in 1..Len(events') : events'[j].name = name}) = 1
    /\ events'[Len(events')] = Event(name, FALSE, <<>>, -1)

\* C17: expandAll() sets expanded = true on every row that has children and
\* emits exactly one 'expanded' notification for the whole call, without
\* payload and after all rows were updated; collapseAll() does the same with
\* false and exactly one payload-free 'collapsed' notification.
C17_ExpandAll ==
    [][/\ lastOp'.name = "expandAll" => AfterAll(TRUE, "expanded")
       /\ lastOp'.name = "collapseAll" => AfterAll(FALSE, "collapsed")]_vars

\* from the states whose parent and child links are intact, expandAll and
\* collapseAll reach every row having children and notify once
ExpandAllWhereLinked ==
    [][C3_ParentChildLinks =>
         /\ lastOp'.name = "expandAll" => AfterAll(TRUE, "expanded")
         /\ lastOp'.name = "collapseAll" => AfterAll(FALSE, "collapsed")]_vars

----------------------------------------------------------------------------
(* Claims on the order of removal and on what an operation leaves alone *)

\* the order removeRow(rowKey) takes the rows in: the descendants reversed,
\* then the row
RemovalOrder(t, rowKey) ==
    Append(Reverse(getTreeDescendentRowKeys(t, rowKey).rowKeys), rowKey)

\* in the order, no row comes after one of its ancestors
BottomUp(t, order) ==
    \A i \in 1..Len(order) : \A j \in (i + 1)..Len(order) :
        order[j] \notin DescendantSet(t, order[i])

\* C18: during removeRow(r) on an existing row the individual removals
\* happen in the order: reverse of getDescendantKeys(r), then r, and in that
\* order every row is removed only after all of its own descendants (its
\* parent still exists when it is detached).
C18_RemovalOrder ==
    [][(lastOp'.name = "removeRow" /\ has(this, lastOp'.rowKey)) =>
         LET order == RemovalOrder(this, lastOp'.rowKey)
         IN /\ RemovedKeys(this, order, 1) = order
            /\ BottomUp(this, order)]_vars

\* the order removeRow computes is bottom-up for every row, in every state
RemovalOrderIsBottomUp ==
    \A k \in KeySet(this) : BottomUp(this, RemovalOrder(this, k))

\* the rows present before and after the step whose sibling flags differ
ChangedFlagRows ==
    {k \in KeySet(this) \cap KeySet(thisNext) :
        hasTreeNextSibling(get(thisNext, k)) # hasTreeNextSibling(get(this, k))}

\* the flags of the row differ at most in the flag of the row's own depth
OnlyOwnFlagChanged(k) ==
    LET old == hasTreeNextSibling(get(this, k))
        new == hasTreeNextSibling(get(thisNext, k))
    IN /\ Len(new) = Len(old)
       /\ \A j \in 1..(Len(old) - 1) : new[j] = old[j]

\* the rows a step may touch: for an append, the sibling preceding the first
\* inserted row in its parent's childrenRowKeys; for a removeRow, the removed
\* row's previous sibling and that sibling's own predecessor
TouchedSiblings ==
    IF err' # "none" THEN {}
    ELSE IF lastOp'.name = "removeRow"
    THEN LET prev == getTreePrevSiblingRowKey(this, lastOp'.rowKey)
         IN {prev} \cup (IF has(this, prev)
                         THEN {getTreePrevSiblingRowKey(this, prev)} ELSE {})
    ELSE {getTreePrevSiblingRowKey(thisNext, events'[1].rowKeys[1])}

\* C19: a single append (or prepend) or removeRow changes the sibling flags
\* of at most two pre-existing rows (the inserted row's immediate preceding
\* sibling, or the removed row's previous sibling and that sibling's own
\* predecessor) and changes only their own-depth flag; the sibling flags of
\* every other pre-existing row are unchanged.
C19_FlagFrame ==
    [][lastOp'.name \in {"append", "prepend", "removeRow"} =>
         /\ Cardinality(ChangedFlagRows) <= 2
         /\ \A k \in ChangedFlagRows :
               /\ OnlyOwnFlagChanged(k)
               /\ k \in TouchedSiblings]_vars

\* an append has put row x as second child after a row b of depth 2 that
\* was in the collection before: b's own flag now tells that x follows
C19_Witness ==
    /\ lastOp.name = "append"
    /\ err = "none"
    /\ LET new == events[1].rowKeys[1]
           prev == getTreePrevSiblingRowKey(this, new)
       IN /\ has(this, prev)
          /\ prev < new
          /\ getTreeDepth(get(this, prev)) = 2
          /\ hasTreeNextSibling(get(this, prev)) = <<FALSE, TRUE>>

\* the rows after the step are the rows before it, up to their tree state
OnlyTreeStateChanged ==
    /\ Len(models') = Len(models)
    /\ \A i \in 1..Len(models) :
          [models'[i] EXCEPT !.treeState = models[i].treeState] = models[i]
    /\ _rootRow' = _rootRow

\* C20: expand(r, recursive = false) and collapse(r, recursive = false) on an
\* existing row r change only r's expanded value: every other row's expanded
\* value, the flat sequence, every childrenKeys, parentKey and sibling flags
\* are unchanged, and r's children are the affected set notified; no expand
\* or collapse operation, recursive or not, adds or removes a row.
C20_ExpandFrame ==
    [][/\ (/\ lastOp'.name \in {"expand", "collapse"}
           /\ ~lastOp'.recursive
           /\ has(this, lastOp'.rowKey)) =>
            /\ err' = "none"
            /\ models' = [models EXCEPT ![pos(this, lastOp'.rowKey)].treeState =
                             IF lastOp'.name = "expand" THEN treeState.EXPAND
                             ELSE treeState.COLLAPSE]
            /\ ~lastOp'.silent =>
                 events'[Len(events')] =
                    Event(IF lastOp'.name = "expand" THEN "expanded"
                          ELSE "collapsed", TRUE,
                          getTreeChildrenRowKeys(get(this, lastOp'.rowKey)), -1)
       /\ lastOp'.name \in {"expand", "collapse", "expandAll", "collapseAll"} =>
            /\ OnlyTreeStateChanged
            /\ RowKeys(models') = RowKeys(models)]_vars

\* a non-recursive expand of a row having children: the row is expanded, its
\* children, one of them with children of its own, are still collapsed
C20_Witness ==
    /\ lastOp.name = "expand"
    /\ ~lastOp.recursive
    /\ err = "none"
    /\ has(this, lastOp.rowKey)
    /\ getTreeExpanded(get(this, lastOp.rowKey))
    /\ \E c \in Range(getTreeChildrenRowKeys(get(this, lastOp.rowKey))) :
          hasTreeChildren(get(this, c))
    /\ \A c \in Range(getTreeChildrenRowKeys(get(this, lastOp.rowKey))) :
          ~getTreeExpanded(get(this, c))

====
